---- MODULE Spec2Model ----
(***************************************************************************)
(* Model of the buffered graphics mode of the sh1106 driver                *)
(* (src/src/mode/graphics.rs) and of its tiled mode                        *)
(* (src/src/mode/tiled.rs) on top of the protocol layer                    *)
(* (src/src/properties.rs).                                                *)
(*                                                                         *)
(* GraphicsMode<DV, DI, BS> is generic in the display variant DV and in    *)
(* the buffer size BS.  The model instantiates it with a small variant     *)
(* (WIDTH columns, PAGES pages of 8 rows) and a buffer that, like the      *)
(* default one (160*160/8 bytes for a 128x64 panel), is larger than the    *)
(* visible plane.  The literal 8 (rows per page) is kept as in the code.   *)
(***************************************************************************)
EXTENDS Integers, Sequences, FiniteSets, TLC

\* ---------------------------------------------------------------- bounds
WIDTH == 2
PAGES == 2
ExtraPages == 1
MaxPrefix == 1
MaxCalls == 2
MaxFailAt == 5
W == 2
P == 2
InitCommonLen == 1
MaxSendFail == 5
MaxDrawLen == 3

\* ------------------------------------------------------ variant constants
HEIGHT == 8 * PAGES
COLUMN_OFFSET == 2
LARGE_PAGE_ADDRESS == FALSE
BS == WIDTH * (PAGES + ExtraPages)
dimensions == <<WIDTH, HEIGHT>>

Rotations == {"Rotate0", "Rotate90", "Rotate180", "Rotate270"}

\* ------------------------------------------------------------- u8 helpers
Min(a, b) == IF a <= b THEN a ELSE b
Max(a, b) == IF a >= b THEN a ELSE b
AsU8(n) == n % 256
DivCeil(a, b) == (a + b - 1) \div b

Bit(b, i) == (b \div (2 ^ i)) % 2
And8(a, m) ==
    Bit(a, 0) * Bit(m, 0) + 2 * Bit(a, 1) * Bit(m, 1) + 4 * Bit(a, 2) * Bit(m, 2)
        + 8 * Bit(a, 3) * Bit(m, 3) + 16 * Bit(a, 4) * Bit(m, 4) + 32 * Bit(a, 5) * Bit(m, 5)
        + 64 * Bit(a, 6) * Bit(m, 6) + 128 * Bit(a, 7) * Bit(m, 7)
Or8(a, m) == a + m - And8(a, m)
Not8(m) == 255 - m
Shl8(a, n) == (a * (2 ^ n)) % 256
Xor8(a, m) == a + m - 2 * And8(a, m)

\* the indices of the slice buf[from..][..n]
SliceIdx(from, n) == from .. (from + n - 1)

\* ------------------------------------------------- rotation and geometry
Swapped(rot) == rot \in {"Rotate90", "Rotate270"}

\* get_dimensions that ignores the rotation
get_dimensions_unrotated(rot) == dimensions

get_dimensions(rot) ==
    IF Swapped(rot) THEN <<dimensions[2], dimensions[1]>> ELSE dimensions

Rect(x, y, w, h) == [x |-> x, y |-> y, w |-> w, h |-> h]

bounding_box(rot) == Rect(0, 0, get_dimensions(rot)[1], get_dimensions(rot)[2])

RectIsEmpty(r) == r.w = 0 \/ r.h = 0

RectContains(r, px, py) ==
    /\ ~RectIsEmpty(r)
    /\ r.x <= px /\ px <= r.x + r.w - 1
    /\ r.y <= py /\ py <= r.y + r.h - 1

Overlaps(a1, a2, b1, b2) == Max(a1, b1) <= Min(a2, b2)

intersection(a, o) ==
    IF ~RectIsEmpty(a) /\ ~RectIsEmpty(o)
    THEN IF /\ Overlaps(a.x, a.x + a.w - 1, o.x, o.x + o.w - 1)
            /\ Overlaps(a.y, a.y + a.h - 1, o.y, o.y + o.h - 1)
         THEN LET tlx == Max(a.x, o.x)
                  tly == Max(a.y, o.y)
                  brx == Min(a.x + a.w - 1, o.x + o.w - 1)
                  bry == Min(a.y + a.h - 1, o.y + o.h - 1)
              IN  Rect(tlx, tly, brx - tlx + 1, bry - tly + 1)
         ELSE Rect(0, 0, 0, 0)
    ELSE IF RectIsEmpty(a) /\ ~RectIsEmpty(o) /\ RectContains(o, a.x, a.y)
         THEN Rect(a.x, a.y, 0, 0)
    ELSE IF RectIsEmpty(o) /\ ~RectIsEmpty(a) /\ RectContains(a, o.x, o.y)
         THEN Rect(o.x, o.y, 0, 0)
    ELSE Rect(0, 0, 0, 0)

\* --------------------------------------------------- GraphicsMode state
\* A value of the struct: the buffer, the dirty rectangle and whether an
\* out-of-range slice aborted the program.
\* construction with the dirty rectangle covering the whole plane
new_all_dirty ==
    [buffer |-> [i \in 0 .. BS - 1 |-> 0],
     top_left |-> <<0, 0>>,
     bot_right |-> <<WIDTH - 1, HEIGHT - 1>>,
     panic |-> FALSE]

new ==
    [buffer |-> [i \in 0 .. BS - 1 |-> 0],
     top_left |-> <<WIDTH, HEIGHT>>,
     bot_right |-> <<0, 0>>,
     panic |-> FALSE]

\* clear that zeroes the buffer and leaves the dirty rectangle alone
clear_keep_dirty(g) == [g EXCEPT !.buffer = [i \in 0 .. BS - 1 |-> 0]]

clear(g) ==
    [g EXCEPT !.buffer = [i \in 0 .. BS - 1 |-> 0],
              !.top_left = <<0, 0>>,
              !.bot_right = <<WIDTH - 1, HEIGHT - 1>>]

\* ------------------------------------------------------------- set_pixel
\* set_pixel without the coordinate swap of the 90/270 degree rotations
set_pixel_noswap(g, rot, x, y, value) ==
    LET display_width == dimensions[1]
        tl == <<Min(g.top_left[1], AsU8(x)), Min(g.top_left[2], AsU8(y))>>
        br == <<Max(g.bot_right[1], AsU8(x)), Max(g.bot_right[2], AsU8(y))>>
        idx == (y \div 8) * display_width + x
        bit == Shl8(1, y % 8)
        g1 == [g EXCEPT !.top_left = tl, !.bot_right = br]
    IN  IF idx >= BS
        THEN g1
        ELSE IF value = 0
             THEN [g1 EXCEPT !.buffer[idx] = And8(@, Not8(bit))]
             ELSE [g1 EXCEPT !.buffer[idx] = Or8(@, bit)]

set_pixel(g, rot, x, y, value) ==
    LET display_width == dimensions[1]
        px == IF Swapped(rot) THEN y ELSE x
        py == IF Swapped(rot) THEN x ELSE y
        tl == <<Min(g.top_left[1], AsU8(px)), Min(g.top_left[2], AsU8(py))>>
        br == <<Max(g.bot_right[1], AsU8(px)), Max(g.bot_right[2], AsU8(py))>>
        idx == (py \div 8) * display_width + px
        bit == Shl8(1, py % 8)
        g1 == [g EXCEPT !.top_left = tl, !.bot_right = br]
    IN  IF idx >= BS
        THEN g1
        ELSE IF value = 0
             THEN [g1 EXCEPT !.buffer[idx] = And8(@, Not8(bit))]
             ELSE [g1 EXCEPT !.buffer[idx] = Or8(@, bit)]

\* ------------------------------------------- helpers of the rectangle fill
fill_solid_aligned(g, x, y, width, height, fill) ==
    LET blocks == (y \div 8) .. (((height + y) \div 8) - 1)
        cells == UNION {SliceIdx(x + b * WIDTH, width) : b \in blocks}
        bad == \E b \in blocks : x + b * WIDTH > BS \/ x + b * WIDTH + width > BS
    IN  IF g.panic THEN g
        ELSE IF bad THEN [g EXCEPT !.panic = TRUE]
        ELSE [g EXCEPT !.buffer = [i \in 0 .. BS - 1 |-> IF i \in cells THEN fill ELSE @[i]]]

apply_mask_to_page(g, mask, color, page, x, width) ==
    LET col_offset == x + page * WIDTH
        cells == SliceIdx(col_offset, width)
    IN  IF g.panic THEN g
        ELSE IF col_offset + width > BS THEN [g EXCEPT !.panic = TRUE]
        ELSE IF color
             THEN [g EXCEPT !.buffer = [i \in 0 .. BS - 1 |->
                                          IF i \in cells THEN Or8(@[i], mask) ELSE @[i]]]
             ELSE [g EXCEPT !.buffer = [i \in 0 .. BS - 1 |->
                                          IF i \in cells THEN And8(@[i], Not8(mask)) ELSE @[i]]]

\* draw_iter over the points of one row of the area: those inside the bounding
\* box go through set_pixel, left to right
RECURSIVE draw_row(_, _, _, _, _, _)
draw_row(g, rot, area, row, col, color) ==
    IF g.panic \/ col >= area.w
    THEN g
    ELSE draw_row(IF RectContains(bounding_box(rot), area.x + col, area.y + row)
                  THEN set_pixel(g, rot, area.x + col, area.y + row, IF color THEN 1 ELSE 0)
                  ELSE g,
                  rot, area, row, col + 1, color)

\* draw_iter over the points of the area, row by row
RECURSIVE draw_iter(_, _, _, _, _)
draw_iter(g, rot, area, row, color) ==
    IF g.panic \/ row >= area.h
    THEN g
    ELSE draw_iter(draw_row(g, rot, area, row, 0, color), rot, area, row + 1, color)

\* fill_contiguous (the DrawTarget default): every point of the area paired
\* with the colour and handed to draw_iter
fill_contiguous(g, rot, area, color) ==
    draw_iter(g, rot, area, 0, color)

\* the clipped rectangle in physical coordinates
Clipped(rot, area) ==
    LET c == intersection(area, bounding_box(rot))
    IN  IF Swapped(rot) THEN Rect(c.y, c.x, c.h, c.w) ELSE c

\* The working values of fill_solid: the struct and the locals x, y, width, height.
\* the dirty rectangle overwritten by, instead of grown to, the clipped rectangle
grow_dirty_assign(g, c) ==
    [g |-> [g EXCEPT
              !.top_left = <<AsU8(c.x), AsU8(c.y)>>,
              !.bot_right = <<AsU8(c.x) + AsU8(c.w), AsU8(c.y) + AsU8(c.h)>>],
     x |-> c.x, y |-> c.y, width |-> c.w, height |-> c.h]

\* grow_dirty: the dirty rectangle takes in the clipped rectangle
grow_dirty(g, c) ==
    [g |-> [g EXCEPT
              !.top_left = <<Min(@[1], AsU8(c.x)), Min(@[2], AsU8(c.y))>>,
              !.bot_right = <<Max(@[1], AsU8(c.x) + AsU8(c.w)),
                              Max(@[2], AsU8(c.y) + AsU8(c.h))>>],
     x |-> c.x, y |-> c.y, width |-> c.w, height |-> c.h]

\* the top band with its mask left unshifted
top_band_noshift(s, color) ==
    LET mask_height == Min(s.height, 8 - (s.y % 8))
    IN  IF (s.y % 8) # 0
        THEN [s EXCEPT
                !.g = apply_mask_to_page(@, Shl8(1, mask_height) - 1, color,
                                         AsU8(s.y \div 8), AsU8(s.x), AsU8(s.width)),
                !.height = @ - mask_height,
                !.y = @ + mask_height]
        ELSE s

\* unaligned top
top_band(s, color) ==
    LET mask_height == Min(s.height, 8 - (s.y % 8))
    IN  IF (s.y % 8) # 0
        THEN [s EXCEPT
                !.g = apply_mask_to_page(@, Shl8(Shl8(1, mask_height) - 1, s.y % 8), color,
                                         AsU8(s.y \div 8), AsU8(s.x), AsU8(s.width)),
                !.height = @ - mask_height,
                !.y = @ + mask_height]
        ELSE s

\* the full pages left as they are
middle_band_skipped(s, color) == s

\* potentially many full pages
middle_band(s, color) ==
    IF s.height # 0
    THEN [s EXCEPT !.g = fill_solid_aligned(@, s.x, s.y, s.width, s.height,
                                            IF color THEN 255 ELSE 0)]
    ELSE s

\* the bottom band written as a whole byte
bottom_band_unmasked(s, color) ==
    IF (s.height % 8) # 0
    THEN [s EXCEPT !.g = apply_mask_to_page(@, 255, color,
                                            (AsU8(s.y) + AsU8(s.height)) \div 8,
                                            AsU8(s.x), AsU8(s.width))]
    ELSE s

\* unaligned bottom
bottom_band(s, color) ==
    IF (s.height % 8) # 0
    THEN [s EXCEPT !.g = apply_mask_to_page(@, Shl8(1, s.height % 8) - 1, color,
                                            (AsU8(s.y) + AsU8(s.height)) \div 8,
                                            AsU8(s.x), AsU8(s.width))]
    ELSE s

\* fill_solid up to and including the bottom partial band
banded(g, rot, area, color) ==
    bottom_band(middle_band(top_band(grow_dirty(g, Clipped(rot, area)), color), color), color)

\* which of the three closing branches of fill_solid is taken
fill_path(y, height) ==
    IF (y % 8) = 0 /\ (height % 8) = 0 THEN "aligned"
    ELSE IF (y \div 8) - ((y + height) \div 8) > 1 THEN "split"
    ELSE "contiguous"

RECURSIVE fill_solid(_, _, _, _)

\* the closing branches of fill_solid, entered with the values the bands left
closing(s, rot, area, color) ==
    IF fill_path(s.y, s.height) = "aligned"
    THEN fill_solid_aligned(s.g, s.x, s.y, s.width, s.height, IF color THEN 255 ELSE 0)
    ELSE IF fill_path(s.y, s.height) = "split"
    THEN LET top_height == 8 - (s.y % 8)
             bottom_y == s.y + s.height - ((s.y + s.height) % 8)
             bottom_height == (s.y + s.height) % 8
             mid_block == (s.y \div 8) + 1
             mid_count == mid_block - ((s.y + s.height) \div 8) * 8
         IN  fill_solid_aligned(
                 fill_solid(fill_solid(s.g, rot, Rect(s.x, s.y, s.width, top_height), color),
                            rot, Rect(s.x, bottom_y, s.width, bottom_height), color),
                 s.x, mid_block * 8, s.width, mid_count * 8, IF color THEN 255 ELSE 0)
    ELSE fill_contiguous(s.g, rot, area, color)

fill_solid(g, rot, area, color) == closing(banded(g, rot, area, color), rot, area, color)

\* ------------------------------------------------------- protocol layer
\* One entry per transport send: a command with its argument, or a data send.
Cmd(name, arg) == [kind |-> "cmd", name |-> name, arg |-> arg, data |-> <<>>]
Data(bytes) == [kind |-> "data", name |-> "data", arg |-> 0, data |-> bytes]

\* draw_page with the data sent ahead of the addressing commands
draw_page_data_first(page_addr, start_col, buf) ==
    LET sc == AsU8(start_col + COLUMN_OFFSET)
    IN  << Data(buf),
           IF LARGE_PAGE_ADDRESS
           THEN Cmd("LargePageAddress", page_addr)
           ELSE Cmd("PageAddress", page_addr),
           Cmd("ColumnAddressLow", And8(15, sc)),
           Cmd("ColumnAddressHigh", And8(15, sc \div 16)) >>

\* the sends of draw_page, in the order they are awaited
draw_page(page_addr, start_col, buf) ==
    LET sc == AsU8(start_col + COLUMN_OFFSET)
    IN  << IF LARGE_PAGE_ADDRESS
           THEN Cmd("LargePageAddress", page_addr)
           ELSE Cmd("PageAddress", page_addr),
           Cmd("ColumnAddressLow", And8(15, sc)),
           Cmd("ColumnAddressHigh", And8(15, sc \div 16)),
           Data(buf) >>

\* a boolean command argument on the wire
B(b) == IF b THEN 1 ELSE 0

\* awaiting that sends the failing send a second time before giving up
await_all_retry(sends, failAt) ==
    IF failAt \in 1 .. Len(sends)
    THEN [wire |-> SubSeq(sends, 1, failAt) \o <<sends[failAt]>>, result |-> "Err"]
    ELSE [wire |-> sends, result |-> "Ok"]

\* Awaiting sends in order with `?` on a transport that fails on send number
\* failAt (0: it never fails): the sends attempted, the failing one last, and
\* what the caller gets back.
await_all(sends, failAt) ==
    IF failAt \in 1 .. Len(sends)
    THEN [wire |-> SubSeq(sends, 1, failAt), result |-> "Err"]
    ELSE [wire |-> sends, result |-> "Ok"]

RECURSIVE Concat(_)
Concat(ss) == IF ss = <<>> THEN <<>> ELSE Head(ss) \o Concat(Tail(ss))

\* set_rotation with the commands of Rotate90 and Rotate270 exchanged
set_rotation_exchanged(rot) ==
    CASE rot = "Rotate0" -> <<Cmd("SegmentRemap", B(TRUE)), Cmd("ReverseComDir", B(TRUE))>>
      [] rot = "Rotate90" -> <<Cmd("SegmentRemap", B(TRUE)), Cmd("ReverseComDir", B(FALSE))>>
      [] rot = "Rotate180" -> <<Cmd("SegmentRemap", B(FALSE)), Cmd("ReverseComDir", B(FALSE))>>
      [] rot = "Rotate270" -> <<Cmd("SegmentRemap", B(FALSE)), Cmd("ReverseComDir", B(TRUE))>>

\* the two orientation commands of set_rotation
set_rotation(rot) ==
    CASE rot = "Rotate0" -> <<Cmd("SegmentRemap", B(TRUE)), Cmd("ReverseComDir", B(TRUE))>>
      [] rot = "Rotate90" -> <<Cmd("SegmentRemap", B(FALSE)), Cmd("ReverseComDir", B(TRUE))>>
      [] rot = "Rotate180" -> <<Cmd("SegmentRemap", B(FALSE)), Cmd("ReverseComDir", B(FALSE))>>
      [] rot = "Rotate270" -> <<Cmd("SegmentRemap", B(TRUE)), Cmd("ReverseComDir", B(FALSE))>>

\* the commands shared by the controller family, of which only the number matters here
init_column_mode_common == [k \in 1 .. InitCommonLen |-> Cmd("InitCommon", k)]

\* the initialization sequence of the variant
variant_init_column_mode ==
    init_column_mode_common \o <<Cmd("DisplayOffset", 0), Cmd("ComPinConfig", B(TRUE))>>

\* init_column_mode with the rotation applied ahead of the variant's sequence
init_column_mode_rotation_first(rot) == set_rotation(rot) \o variant_init_column_mode

\* init_column_mode: the variant's sequence, then the rotation read before it
init_column_mode(rot) == variant_init_column_mode \o set_rotation(rot)

display_on(on) == <<Cmd("DisplayOn", B(on))>>
set_contrast(contrast) == <<Cmd("Contrast", contrast)>>

\* chunks that drops a last chunk shorter than width, as chunks_exact does
chunks_whole(buf, width) ==
    [k \in 1 .. (Len(buf) \div width) |-> SubSeq(buf, (k - 1) * width + 1, k * width)]

\* buffer.chunks(width)
chunks(buf, width) ==
    [k \in 1 .. DivCeil(Len(buf), width) |->
        SubSeq(buf, (k - 1) * width + 1, Min(k * width, Len(buf)))]

\* the sends of draw for a non-zero width: one draw_page per chunk
draw(start, end, buf) ==
    LET width == AsU8(end[1] - start[1])
        base_page == start[2] \div 8
        cs == chunks(buf, width)
    IN  Concat([k \in 1 .. Len(cs) |-> draw_page(AsU8(base_page + k - 1), start[1], cs[k])])

\* ------------------------------------------------------------- tiled mode
\* A Page<W> is its W bytes; the byte of column x is element x + 1.
Page_new(pattern) == [c \in 1 .. W |-> pattern]

PixelOperations == {"Set", "Clear", "Toggle"}

\* From<BinaryColor> for PixelOperation
PixelOperation_from(color) == IF color THEN "Set" ELSE "Clear"

\* the match on the operation: what a cell becomes under a mask
apply_op(cell, mask, pop) ==
    CASE pop = "Set" -> Or8(cell, mask)
      [] pop = "Clear" -> And8(cell, Not8(mask))
      [] pop = "Toggle" -> Xor8(cell, mask)

\* A page or tile operation yields the new value and whether it aborted on an
\* out-of-range index or an arithmetic overflow.
Page_modify_pixel(pg, x, y, pop) ==
    IF x < AsU8(W)
    THEN [pg EXCEPT ![x + 1] = apply_op(@, Shl8(1, y % 8), pop)]
    ELSE pg

Page_apply_mask(pg, mask, start, end, pop) ==
    IF end < start
    THEN [p |-> pg, panic |-> FALSE]
    ELSE LET s0 == Min(W, start)
             e0 == Max(W, end)
         IN  IF e0 > W
             THEN [p |-> pg, panic |-> TRUE]
             ELSE [p |-> [c \in 1 .. W |->
                            IF s0 < c /\ c <= e0 THEN apply_op(pg[c], mask, pop) ELSE pg[c]],
                   panic |-> FALSE]

Page_bounding_box == Rect(0, 0, W, 8)

\* 1u8 << n: a shift by 8 or more aborts when overflow checks are compiled in
\* and shifts by n % 8 when they are not
shl_u8_overflows(n) == n >= 8
shl_u8(a, n) == Shl8(a, n % 8)

\* wrapping_sub(1)
wrapping_dec(a) == (a + 255) % 256

Page_fill_solid(pg, r, color, checks) ==
    LET c == intersection(r, Page_bounding_box)
        mask_height == Min(c.h, 8 - (c.y % 8))
        mask == Shl8(wrapping_dec(shl_u8(1, mask_height)), c.y % 8)
    IN  IF shl_u8_overflows(mask_height) /\ checks
        THEN [p |-> pg, panic |-> TRUE]
        ELSE Page_apply_mask(pg, mask, AsU8(c.x), AsU8(c.x) + AsU8(c.w),
                             PixelOperation_from(color))

\* modify_pixel that takes plane coordinates and subtracts the anchor itself
Tile_modify_pixel_anchored(t, x, y, pop) ==
    IF t.col_offset <= x /\ x - t.col_offset < AsU8(W)
          /\ t.page_offset <= (y \div 8) /\ (y \div 8) - t.page_offset < P
    THEN [t EXCEPT !.pages[(y \div 8) - t.page_offset + 1] =
                       Page_modify_pixel(@, x - t.col_offset, y % 8, pop)]
    ELSE t

Tile_modify_pixel(t, x, y, pop) ==
    IF x < AsU8(W) /\ (y \div 8) < P
    THEN [t EXCEPT !.pages[(y \div 8) + 1] = Page_modify_pixel(@, x, y % 8, pop)]
    ELSE t

Tile_bounding_box(t) == Rect(t.col_offset, t.page_offset * 8, W, P * 8)

\* u8 - u8: a negative difference aborts when overflow checks are compiled in
\* and wraps when they are not
sub_u8_overflows(a, b) == a < b
sub_u8(a, b) == (a - b + 256) % 256

\* Tile::draw_iter for one pixel
Tile_draw_iter(t, px, py, color, checks) ==
    IF checks /\ (sub_u8_overflows(AsU8(px), t.col_offset)
                    \/ sub_u8_overflows(AsU8(py), t.page_offset * 8))
    THEN [t |-> t, panic |-> TRUE]
    ELSE [t |-> Tile_modify_pixel(t, sub_u8(AsU8(px), t.col_offset),
                                  sub_u8(AsU8(py), t.page_offset * 8),
                                  PixelOperation_from(color)),
          panic |-> FALSE]

\* one apply_mask on page number pn of a tile, and what is left of the rectangle
tile_mask(s, mask, pn, pop) ==
    IF s.panic THEN s
    ELSE IF pn >= P THEN [s EXCEPT !.panic = TRUE]
    ELSE LET r == Page_apply_mask(s.t.pages[pn + 1], mask, AsU8(s.x), AsU8(s.x) + AsU8(s.width), pop)
         IN  [s EXCEPT !.t.pages[pn + 1] = r.p, !.panic = r.panic]

\* unaligned top
tile_top(s, color) ==
    LET mask_height == Min(s.height, 8 - (s.y % 8))
        mask == Shl8(wrapping_dec(shl_u8(1, mask_height)), s.y % 8)
        m == tile_mask(s, mask, s.y \div 8, PixelOperation_from(color))
    IN  IF (s.y % 8) # 0
        THEN [m EXCEPT !.height = @ - mask_height, !.y = @ + mask_height]
        ELSE s

\* aligned center rows
tile_center(s, color) ==
    LET first == s.y \div 8
        n == s.height \div 8
        fill == IF color THEN 255 ELSE 0
    IN  IF s.panic THEN s
        ELSE IF first > P \/ first + n > P THEN [s EXCEPT !.panic = TRUE]
        ELSE IF n > 0 /\ (s.x > W \/ s.x + s.width > W) THEN [s EXCEPT !.panic = TRUE]
        ELSE [s EXCEPT !.t.pages =
                 [k \in 1 .. P |->
                     IF first < k /\ k <= first + n
                     THEN [c \in 1 .. W |->
                             IF s.x < c /\ c <= s.x + s.width THEN fill ELSE @[k][c]]
                     ELSE @[k]]]

\* bottom unaligned rows
tile_bottom(s, color) ==
    IF ~s.panic /\ (s.height % 8) # 0
    THEN tile_mask(s, wrapping_dec(shl_u8(1, s.height % 8)),
                   (AsU8(s.y) + AsU8(s.height)) \div 8, PixelOperation_from(color))
    ELSE s

Tile_fill_solid(t, r, color) ==
    LET c == intersection(r, Tile_bounding_box(t))
    IN  tile_bottom(tile_center(tile_top(
            [t |-> t, panic |-> FALSE, x |-> c.x, y |-> c.y, width |-> c.w, height |-> c.h],
            color), color), color)

\* the sends of TiledMode::draw_tile: one draw_page per page of the tile
draw_tile(t) ==
    Concat([k \in 1 .. Len(t.pages) |->
               draw_page(AsU8(k - 1) + t.page_offset, t.col_offset, t.pages[k])])

\* the sends of TiledMode::clear::<W>(pattern)
tiled_clear(pattern) ==
    Concat([k \in 1 .. DivCeil(HEIGHT, 8) |-> draw_page(k - 1, 0, Page_new(pattern))])

\* ------------------------------------------------------------------ flush
NumChunks == BS \div WIDTH

IsClean(g) == g.top_left[1] > g.bot_right[1] \/ g.top_left[2] > g.bot_right[2]

\* the chunk numbers flush iterates over: skip(base_page).take(end_page - base_page)
flush_pages(g) ==
    LET base_page == g.top_left[2] \div 8
        end_page == DivCeil(g.bot_right[2], 8)
    IN  base_page .. (Min(end_page, NumChunks) - 1)

\* the slice buf[base_col ..= end_col] of a chunk is out of range
flush_slice_fails(g) == g.bot_right[1] + 1 > WIDTH

RECURSIVE flush_sends_from(_, _, _)
flush_sends_from(g, p, last) ==
    IF p > last
    THEN <<>>
    ELSE LET base_col == g.top_left[1]
             end_col == g.bot_right[1]
             buf == [c \in 1 .. (end_col - base_col + 1) |->
                       g.buffer[p * WIDTH + base_col + c - 1]]
         IN  draw_page(AsU8(p), base_col, buf) \o flush_sends_from(g, p + 1, last)

\* every send of a flush on which the transport never fails
flush_sends(g) ==
    IF IsClean(g) \/ flush_pages(g) = {} \/ flush_slice_fails(g)
    THEN <<>>
    ELSE LET base_page == g.top_left[2] \div 8
         IN  flush_sends_from(g, base_page, base_page + Cardinality(flush_pages(g)) - 1)

\* flush that resets the dirty rectangle also when a send failed
flush_reset_on_error(g, failAt) ==
    LET sends == flush_sends(g)
    IN  IF IsClean(g)
        THEN [g |-> g, wire |-> <<>>, result |-> "Ok"]
        ELSE IF flush_pages(g) # {} /\ flush_slice_fails(g)
        THEN [g |-> [g EXCEPT !.panic = TRUE], wire |-> <<>>, result |-> "Panic"]
        ELSE [g |-> [g EXCEPT !.top_left = <<WIDTH - 1, HEIGHT>>, !.bot_right = <<0, 0>>],
              wire |-> IF failAt \in 1 .. Len(sends) THEN SubSeq(sends, 1, failAt) ELSE sends,
              result |-> IF failAt \in 1 .. Len(sends) THEN "Err" ELSE "Ok"]

\* flush with the transport failing on send number failAt (0: it never fails)
flush(g, failAt) ==
    LET sends == flush_sends(g)
    IN  IF IsClean(g)
        THEN [g |-> g, wire |-> <<>>, result |-> "Ok"]
        ELSE IF flush_pages(g) # {} /\ flush_slice_fails(g)
        THEN [g |-> [g EXCEPT !.panic = TRUE], wire |-> <<>>, result |-> "Panic"]
        ELSE IF failAt \in 1 .. Len(sends)
        THEN [g |-> g, wire |-> SubSeq(sends, 1, failAt), result |-> "Err"]
        ELSE [g |-> [g EXCEPT !.top_left = <<WIDTH - 1, HEIGHT>>, !.bot_right = <<0, 0>>],
              wire |-> sends,
              result |-> "Ok"]

\* ------------------------------------------------------------------ state
VARIABLES
    display_rotation,   \* DisplayProperties::display_rotation
    buffer,             \* GraphicsMode::buffer
    top_left,           \* GraphicsMode::top_left
    bot_right,          \* GraphicsMode::bot_right
    panicked,           \* an out-of-range slice aborted the program
    wire,               \* the transport sends of the last call, in order
    result,             \* what the last call returned
    op,                 \* the last call and its arguments
    touched,            \* physical pixels written since the last flush or clear
    calls,              \* number of write calls made so far
    draw_area_start,    \* DisplayProperties::draw_area_start
    draw_area_end,      \* DisplayProperties::draw_area_end
    page,               \* a Page<W> owned by the caller
    tile,               \* a Tile<W, P> owned by the caller
    trip                \* the rotation at construction, the rotations requested since,
                        \* and whether the last request closed a round trip

vars == <<display_rotation, buffer, top_left, bot_right, panicked, wire, result, op, touched, calls,
          draw_area_start, draw_area_end, page, tile, trip>>

graphics == <<buffer, top_left, bot_right, panicked, touched, calls>>
draw_area == <<draw_area_start, draw_area_end>>
tiles == <<page, tile>>

G == [buffer |-> buffer, top_left |-> top_left, bot_right |-> bot_right, panic |-> panicked]

Call(name, x, y, w, h, v) == [name |-> name, x |-> x, y |-> y, w |-> w, h |-> h, v |-> v]

\* a call that talks to the transport: its arguments a and b, the bytes it was
\* handed, and the send on which the transport fails (0: none)
HwCall(name, a, b, buf, failAt) ==
    [name |-> name, x |-> a, y |-> b, w |-> 0, h |-> 0, v |-> failAt, buf |-> buf]

\* ----------------------------------------------------------------- inputs
Logical(rot, px, py) == IF Swapped(rot) THEN <<py, px>> ELSE <<px, py>>
Physical(rot, x, y) == IF Swapped(rot) THEN <<y, x>> ELSE <<x, y>>
LogicalRect(rot, r) == IF Swapped(rot) THEN Rect(r.y, r.x, r.h, r.w) ELSE r

\* Physical targets of set_pixel: every column up to the first one past the
\* plane, every row up to the first one past the plane, and the first row past
\* the buffer.
PhysCols == 0 .. WIDTH
PhysRows == (0 .. HEIGHT) \cup {8 * NumChunks}
AllPixels == [rot \in Rotations |-> {Logical(rot, px, py) : px \in PhysCols, py \in PhysRows}]

\* Physical rectangles: every non-empty rectangle inside the plane, some
\* zero-area ones, and some that reach past the plane.
InPlaneRects ==
    UNION {UNION {{Rect(x, y, w, h) : w \in 1 .. (WIDTH - x), h \in 1 .. (HEIGHT - y)}
                  : y \in 0 .. (HEIGHT - 1)} : x \in 0 .. (WIDTH - 1)}
ZeroAreaRects ==
    {Rect(x, y, 0, 0) : x \in {0, 1}, y \in {0, 9}}
        \cup {Rect(0, 3, 0, 5), Rect(1, 8, 0, 8), Rect(0, 5, 1, 0), Rect(WIDTH, HEIGHT, 0, 0)}
OverhangRects ==
    {Rect(WIDTH - 1, HEIGHT - 3, 2, 5), Rect(0, 0, WIDTH + 1, HEIGHT + 1),
     Rect(WIDTH, 0, 1, 1), Rect(0, HEIGHT, 1, 1)}
AllRects ==
    [rot \in Rotations |->
        {LogicalRect(rot, r) : r \in InPlaneRects \cup ZeroAreaRects \cup OverhangRects}]

\* The writes that build up a buffer before one write drawn from all inputs.
PrefixPixels == [rot \in Rotations |-> {Logical(rot, WIDTH - 1, 9)}]
PrefixRects ==
    [rot \in Rotations |->
        {LogicalRect(rot, Rect(0, 0, WIDTH, HEIGHT)), LogicalRect(rot, Rect(0, 3, 1, 10))}]

\* The writes of the call sequences that mix writes with clear and flush.
SamplePixels ==
    [rot \in Rotations |->
        {Logical(rot, 0, 0), Logical(rot, WIDTH - 1, 8), Logical(rot, WIDTH - 1, HEIGHT - 1),
         Logical(rot, WIDTH, 0), Logical(rot, 0, HEIGHT)}]
SampleRects ==
    [rot \in Rotations |->
        {LogicalRect(rot, Rect(0, 0, WIDTH, HEIGHT)), LogicalRect(rot, Rect(0, 3, 1, 10)),
         LogicalRect(rot, Rect(WIDTH - 1, 8, 1, 8)), LogicalRect(rot, Rect(0, 0, 1, 1)),
         LogicalRect(rot, Rect(1, 9, 0, 0))}]

RectPixels(r) == (r.x .. (r.x + r.w - 1)) \X (r.y .. (r.y + r.h - 1))

\* Inputs of the calls that talk to the transport.
Bufs == {[i \in 1 .. n |-> 16 * n + i] : n \in 0 .. MaxDrawLen}
\* page address and first column of the draw_page calls
ProtoTargets == {<<PAGES - 1, 14>>, <<1, 125>>}
ProtoBufs == {b \in Bufs : Len(b) = MaxDrawLen}
SampleAreas == {<<<<0, 0>>, <<2, HEIGHT>>>>, <<<<1, 8>>, <<2, HEIGHT>>>>}
Patterns == {0, 165}
SampleTiles ==
    {[pages |-> [k \in 1 .. P |-> [c \in 1 .. W |-> 16 * k + c]],
      col_offset |-> a[1], page_offset |-> a[2]] : a \in {<<0, 0>>, <<1, 1>>}}

\* the rectangle of the worked example: rows 3 .. 12 of the first 8 columns
ScenarioRect == Rect(0, 3, 8, 10)

\* ---------------------------------------------------------------- actions
\* Inputs of the page and tile operations.
Masks == {15, 129, 255}
MaskRanges == (0 .. W + 1) \X (0 .. W + 1)
PageRects ==
    {Rect(x, y, w, h) : x \in 0 .. W, y \in {0, 3, 8}, w \in 0 .. W + 1, h \in {0, 1, 5, 8, 9}}
TilePixels == (0 .. W + 2) \X {0, 7, 8, 9, 8 * P + 7, 8 * P + 8}
TileRects ==
    {Rect(x, y, w, h) : x \in 0 .. W, y \in {0, 3, 8, 11, 8 * P - 1},
                        w \in 1 .. W, h \in {1, 5, 8, 10, 16}}
        \cup {Rect(0, 0, 0, 0), Rect(1, 9, 0, 0), Rect(0, 0, W + 2, 8 * P + 16)}

InitGraphics ==
    /\ display_rotation \in Rotations
    /\ buffer = new.buffer
    /\ top_left = new.top_left
    /\ bot_right = new.bot_right
    /\ panicked = new.panic
    /\ wire = <<>>
    /\ result = "Unit"
    /\ op = Call("new", 0, 0, 0, 0, 0)
    /\ touched = {}
    /\ calls = 0
    /\ draw_area_start = <<0, 0>>
    /\ draw_area_end = <<0, 0>>
    /\ trip = [from |-> display_rotation, seen |-> {}, back |-> FALSE]

Init ==
    /\ InitGraphics
    /\ page = Page_new(0)
    /\ tile = [pages |-> [k \in 1 .. P |-> Page_new(0)], col_offset |-> 0, page_offset |-> 0]

\* a page and a tile as the caller built them
InitTile ==
    /\ InitGraphics
    /\ display_rotation = "Rotate0"
    /\ page \in {Page_new(pattern) : pattern \in Patterns}
    /\ tile \in {[pages |-> [k \in 1 .. P |-> Page_new(pattern)],
                  col_offset |-> a[1], page_offset |-> a[2]] :
                     pattern \in Patterns, a \in {<<0, 0>>, <<1, 1>>}}

\* the driver next to a tile the caller has filled in
InitProto ==
    /\ InitGraphics
    /\ page = Page_new(0)
    /\ tile \in {t \in SampleTiles : t.col_offset = 1}

Store(g) ==
    /\ buffer' = g.buffer
    /\ top_left' = g.top_left
    /\ bot_right' = g.bot_right
    /\ panicked' = g.panic

Clear ==
    /\ ~panicked
    /\ Store(clear(G))
    /\ wire' = <<>>
    /\ result' = "Unit"
    /\ op' = Call("clear", 0, 0, 0, 0, 0)
    /\ touched' = {}
    /\ UNCHANGED <<display_rotation, calls, draw_area, tiles, trip>>

Flush(failAt) ==
    /\ ~panicked
    /\ failAt \in 0 .. Len(flush_sends(G))
    /\ LET r == flush(G, failAt)
       IN  /\ Store(r.g)
           /\ wire' = r.wire
           /\ result' = r.result
           /\ touched' = IF r.result = "Ok" THEN {} ELSE touched
    /\ op' = Call("flush", 0, 0, 0, 0, failAt)
    /\ UNCHANGED <<display_rotation, calls, draw_area, tiles, trip>>

SetPixel(x, y, value) ==
    /\ ~panicked
    /\ Store(set_pixel(G, display_rotation, x, y, value))
    /\ wire' = <<>>
    /\ result' = "Unit"
    /\ op' = Call("set_pixel", x, y, 0, 0, value)
    /\ touched' = touched \cup {Physical(display_rotation, x, y)}
    /\ calls' = calls + 1
    /\ UNCHANGED <<display_rotation, draw_area, tiles, trip>>

FillSolid(area, color) ==
    /\ ~panicked
    /\ Store(fill_solid(G, display_rotation, area, color))
    /\ wire' = <<>>
    /\ result' = "Ok"
    /\ op' = Call("fill_solid", area.x, area.y, area.w, area.h, IF color THEN 1 ELSE 0)
    /\ touched' = touched \cup RectPixels(Clipped(display_rotation, area))
    /\ calls' = calls + 1
    /\ UNCHANGED <<display_rotation, draw_area, tiles, trip>>

\* a page or tile operation leaves the driver alone
TileCall(name, x, y, w, h, v, panic) ==
    /\ ~panicked /\ calls = 0
    /\ calls' = calls + 1
    /\ panicked' = panic
    /\ result' = IF panic THEN "Panic" ELSE "Unit"
    /\ wire' = <<>>
    /\ op' = Call(name, x, y, w, h, v)
    /\ UNCHANGED <<display_rotation, buffer, top_left, bot_right, touched, draw_area, trip>>

PageModifyPixel(x, y, pop) ==
    /\ page' = Page_modify_pixel(page, x, y, pop)
    /\ TileCall("Page_modify_pixel", x, y, 0, 0, pop, FALSE)
    /\ UNCHANGED tile

PageApplyMask(mask, start, end, pop) ==
    LET r == Page_apply_mask(page, mask, start, end, pop)
    IN  /\ page' = r.p
        /\ TileCall("Page_apply_mask", start, end, mask, 0, pop, r.panic)
        /\ UNCHANGED tile

PageFillSolid(r, color, checks) ==
    LET o == Page_fill_solid(page, r, color, checks)
    IN  /\ page' = o.p
        /\ TileCall("Page_fill_solid", r.x, r.y, r.w, r.h, B(color), o.panic)
        /\ UNCHANGED tile

TileModifyPixel(x, y, pop) ==
    /\ tile' = Tile_modify_pixel(tile, x, y, pop)
    /\ TileCall("Tile_modify_pixel", x, y, 0, 0, pop, FALSE)
    /\ UNCHANGED page

TileDrawIter(px, py, color, checks) ==
    LET o == Tile_draw_iter(tile, px, py, color, checks)
    IN  /\ tile' = o.t
        /\ TileCall("Tile_draw_iter", px, py, 0, 0, B(color), o.panic)
        /\ UNCHANGED page

TileFillSolid(r, color) ==
    LET o == Tile_fill_solid(tile, r, color)
    IN  /\ tile' = o.t
        /\ TileCall("Tile_fill_solid", r.x, r.y, r.w, r.h, B(color), o.panic)
        /\ UNCHANGED page

\* a call that only awaits sends on the transport
Hw(name, a, b, buf, sends, failAt) ==
    /\ ~panicked
    /\ failAt \in 0 .. Len(sends)
    /\ wire' = await_all(sends, failAt).wire
    /\ result' = await_all(sends, failAt).result
    /\ op' = HwCall(name, a, b, buf, failAt)

DrawPage(page_addr, start_col, buf, failAt) ==
    /\ Hw("draw_page", page_addr, start_col, buf, draw_page(page_addr, start_col, buf), failAt)
    /\ UNCHANGED <<display_rotation, graphics, draw_area, tiles, trip>>

SetDrawArea(start, end) ==
    /\ ~panicked
    /\ draw_area_start' = start
    /\ draw_area_end' = end
    /\ wire' = <<>>
    /\ result' = "Unit"
    /\ op' = HwCall("set_draw_area", start, end, <<>>, 0)
    /\ UNCHANGED <<display_rotation, graphics, tiles, trip>>

\* draw: chunks(0) aborts the program before anything is sent
Draw(buf, failAt) ==
    /\ ~panicked
    /\ IF AsU8(draw_area_end[1] - draw_area_start[1]) = 0
       THEN /\ failAt = 0
            /\ panicked' = TRUE
            /\ wire' = <<>>
            /\ result' = "Panic"
            /\ op' = HwCall("draw", 0, 0, buf, failAt)
            /\ UNCHANGED <<buffer, top_left, bot_right, touched, calls>>
       ELSE /\ Hw("draw", 0, 0, buf, draw(draw_area_start, draw_area_end, buf), failAt)
            /\ UNCHANGED graphics
    /\ UNCHANGED <<display_rotation, draw_area, tiles, trip>>

\* set_rotation that stores the rotation only once both commands were sent
SetRotation_stored_last(rot, failAt) ==
    /\ display_rotation' = IF failAt = 0 THEN rot ELSE display_rotation
    /\ Hw("set_rotation", rot, 0, <<>>, set_rotation(rot), failAt)
    /\ UNCHANGED <<graphics, draw_area, tiles>>

\* set_rotation stores the rotation, then sends the two commands
SetRotation(rot, failAt) ==
    /\ display_rotation' = rot
    /\ Hw("set_rotation", rot, 0, <<>>, set_rotation(rot), failAt)
    /\ UNCHANGED <<graphics, draw_area, tiles>>

InitColumnMode(failAt) ==
    /\ Hw("init", display_rotation, 0, <<>>, init_column_mode(display_rotation), failAt)
    /\ UNCHANGED <<display_rotation, graphics, draw_area, tiles, trip>>

DisplayOn(on, failAt) ==
    /\ Hw("display_on", B(on), 0, <<>>, display_on(on), failAt)
    /\ UNCHANGED <<display_rotation, graphics, draw_area, tiles, trip>>

SetContrast(contrast, failAt) ==
    /\ Hw("set_contrast", contrast, 0, <<>>, set_contrast(contrast), failAt)
    /\ UNCHANGED <<display_rotation, graphics, draw_area, tiles, trip>>

DrawTile(failAt) ==
    /\ Hw("draw_tile", 0, 0, <<>>, draw_tile(tile), failAt)
    /\ UNCHANGED <<display_rotation, graphics, draw_area, tiles, trip>>

TiledClear(pattern, failAt) ==
    /\ Hw("tiled_clear", pattern, 0, <<>>, tiled_clear(pattern), failAt)
    /\ UNCHANGED <<display_rotation, graphics, draw_area, tiles, trip>>

\* Call sequences: clear, flush and writes in any order, MaxCalls writes at most.
Next ==
    \/ Clear
    \/ /\ ~panicked
       /\ \E failAt \in 0 .. MaxFailAt : Flush(failAt)
    \/ /\ ~panicked /\ calls < MaxCalls
       /\ \E p \in SamplePixels[display_rotation], value \in {0, 1} : SetPixel(p[1], p[2], value)
    \/ /\ ~panicked /\ calls < MaxCalls
       /\ \E area \in SampleRects[display_rotation], color \in BOOLEAN : FillSolid(area, color)

Spec == Init /\ [][Next]_vars

\* Drawing: up to MaxPrefix writes that switch pixels on, then one write drawn
\* from all inputs.
NextDraw ==
    \/ /\ ~panicked /\ calls < MaxPrefix
       /\ \E p \in PrefixPixels[display_rotation] : SetPixel(p[1], p[2], 1)
    \/ /\ ~panicked /\ calls < MaxPrefix
       /\ \E area \in PrefixRects[display_rotation] : FillSolid(area, TRUE)
    \/ /\ ~panicked /\ calls = MaxPrefix
       /\ \E p \in AllPixels[display_rotation], value \in {0, 1} : SetPixel(p[1], p[2], value)
    \/ /\ ~panicked /\ calls = MaxPrefix
       /\ \E area \in AllRects[display_rotation], color \in BOOLEAN : FillSolid(area, color)

SpecDraw == Init /\ [][NextDraw]_vars

\* Rectangle fills on a plane that is all off or all on: up to MaxPrefix fills
\* of the whole plane, then one fill drawn from all rectangles.
NextBands ==
    \/ /\ ~panicked /\ calls < MaxPrefix
       /\ \E color \in BOOLEAN :
              FillSolid(LogicalRect(display_rotation, Rect(0, 0, WIDTH, HEIGHT)), color)
    \/ /\ ~panicked /\ calls = MaxPrefix
       /\ \E r \in AllRects[display_rotation], color \in BOOLEAN : FillSolid(r, color)

SpecBands == Init /\ [][NextBands]_vars

\* One rectangle fill of the constructed, all-zero driver, or one rectangle
\* fill of an all-zero tile anchored at the origin.
NextFills ==
    \/ /\ ~panicked /\ calls = 0
       /\ \E area \in AllRects[display_rotation] \cup {ScenarioRect}, color \in BOOLEAN :
              FillSolid(area, color)
    \/ /\ ~panicked /\ calls = 0
       /\ \E r \in TileRects \cup {ScenarioRect}, color \in BOOLEAN : TileFillSolid(r, color)

SpecFills == Init /\ [][NextFills]_vars

\* The calls that talk to the transport, in any order, the transport failing on
\* any of the first MaxSendFail sends of a call.
NextProto ==
    \/ Clear
    \/ \E failAt \in 0 .. MaxSendFail : Flush(failAt)
    \/ \E a \in SampleAreas : SetDrawArea(a[1], a[2])
    \/ \E t \in ProtoTargets, buf \in ProtoBufs, failAt \in 0 .. MaxSendFail :
           DrawPage(t[1], t[2], buf, failAt)
    \/ \E buf \in Bufs, failAt \in 0 .. MaxSendFail : Draw(buf, failAt)
    \/ \E rot \in Rotations, failAt \in 0 .. MaxSendFail :
           SetRotation(rot, failAt) /\ UNCHANGED trip
    \/ \E failAt \in 0 .. MaxSendFail : InitColumnMode(failAt)
    \/ \E on \in BOOLEAN, failAt \in 0 .. MaxSendFail : DisplayOn(on, failAt)
    \/ \E failAt \in 0 .. MaxSendFail : SetContrast(128, failAt)
    \/ \E failAt \in 0 .. MaxSendFail : DrawTile(failAt)
    \/ \E failAt \in 0 .. MaxSendFail : TiledClear(165, failAt)

SpecProto == InitProto /\ [][NextProto]_vars

\* One operation on a page or a tile, with overflow checks compiled in or not.
NextTile ==
    \/ /\ ~panicked /\ calls = 0
       /\ \E x \in 0 .. W, y \in {0, 7, 9}, pop \in PixelOperations : PageModifyPixel(x, y, pop)
    \/ /\ ~panicked /\ calls = 0
       /\ \E mask \in Masks, r \in MaskRanges, pop \in PixelOperations :
              PageApplyMask(mask, r[1], r[2], pop)
    \/ /\ ~panicked /\ calls = 0
       /\ \E r \in PageRects, color \in BOOLEAN, checks \in BOOLEAN : PageFillSolid(r, color, checks)
    \/ /\ ~panicked /\ calls = 0
       /\ \E q \in TilePixels, pop \in PixelOperations : TileModifyPixel(q[1], q[2], pop)
    \/ /\ ~panicked /\ calls = 0
       /\ \E q \in TilePixels, color \in BOOLEAN, checks \in BOOLEAN :
              TileDrawIter(q[1], q[2], color, checks)
    \/ /\ ~panicked /\ calls = 0
       /\ \E r \in TileRects, color \in BOOLEAN : TileFillSolid(r, color)

SpecTile == InitTile /\ [][NextTile]_vars

\* the bookkeeping of a request for rotation rot: a request for the rotation at
\* construction closes a round trip once all four rotations have been requested
Requested(rot) ==
    trip' = [trip EXCEPT !.seen = @ \cup {rot},
                         !.back = (trip.seen = Rotations /\ rot = trip.from)]

\* Rotation changes, failing or not, around writes of single pixels and of a
\* rectangle.
NextRot ==
    \/ \E rot \in Rotations, failAt \in 0 .. MaxFailAt :
           SetRotation(rot, failAt) /\ Requested(rot)
    \/ /\ ~panicked /\ calls < MaxPrefix
       /\ \E p \in PrefixPixels[display_rotation] \cup {<<0, 0>>} : SetPixel(p[1], p[2], 1)
    \/ /\ ~panicked /\ calls < MaxPrefix
       /\ FillSolid(LogicalRect(display_rotation, Rect(0, 3, 1, 10)), TRUE)

SpecRot == Init /\ [][NextRot]_vars

TypeOK ==
    /\ display_rotation \in Rotations
    /\ \A i \in 0 .. BS - 1 : buffer[i] \in 0 .. 255
    /\ panicked \in BOOLEAN
    /\ result \in {"Unit", "Ok", "Err", "Panic"}

\* ================================================================ claims
\* the logical point (x, y) lies inside the plane as rotated
InPlane(rot, x, y) ==
    /\ 0 <= x /\ x < get_dimensions(rot)[1]
    /\ 0 <= y /\ y < get_dimensions(rot)[2]

IsWrite(c) == c.name \in {"set_pixel", "fill_solid"}

\* C1: an in-bounds set_pixel(x, y, v) changes exactly bit (py % 8) of byte
\* (py / 8) * WIDTH + px, where (px, py) is (x, y) under 0/180 degrees and
\* (y, x) under 90/270 degrees; the bit becomes 1 when v # 0 and 0 when v = 0,
\* and every other bit of the buffer keeps its value.
C1_SetPixelInBounds ==
    [][(op'.name = "set_pixel" /\ InPlane(display_rotation, op'.x, op'.y)) =>
         LET px == IF display_rotation \in {"Rotate0", "Rotate180"} THEN op'.x ELSE op'.y
             py == IF display_rotation \in {"Rotate0", "Rotate180"} THEN op'.y ELSE op'.x
         IN  \A i \in 0 .. BS - 1 : \A b \in 0 .. 7 :
                 Bit(buffer'[i], b) =
                     IF i = (py \div 8) * WIDTH + px /\ b = py % 8
                     THEN (IF op'.v # 0 THEN 1 ELSE 0)
                     ELSE Bit(buffer[i], b)]_vars

\* C1 witness: under a swapping rotation an in-bounds set_pixel switched a
\* pixel off inside a byte whose other bits are still on.
C1_Witness ==
    /\ op.name = "set_pixel" /\ op.v = 0
    /\ display_rotation = "Rotate90"
    /\ InPlane(display_rotation, op.x, op.y)
    /\ op.x # op.y
    /\ Bit(buffer[(op.x \div 8) * WIDTH + op.y], op.x % 8) = 0
    /\ buffer[(op.x \div 8) * WIDTH + op.y] # 0

\* C2: an out-of-range set_pixel is a no-op: for a logical point outside the
\* rotated plane neither a buffer byte nor the dirty rectangle changes.
C2_OutOfRangeNoOp ==
    [][(op'.name = "set_pixel" /\ ~InPlane(display_rotation, op'.x, op'.y)) =>
         (buffer' = buffer /\ top_left' = top_left /\ bot_right' = bot_right)]_vars

\* the logical point that the physical point (px, py) shows
ClaimLogical(rot, px, py) == IF rot \in {"Rotate0", "Rotate180"} THEN <<px, py>> ELSE <<py, px>>

\* the logical point l lies in the rectangle of the call c
InCallRect(c, l) ==
    /\ c.x <= l[1] /\ l[1] < c.x + c.w
    /\ c.y <= l[2] /\ l[2] < c.y + c.h

\* the physical pixels of the plane that a write call is meant to touch
Footprint(rot, c) ==
    {p \in (0 .. WIDTH - 1) \X (0 .. HEIGHT - 1) :
        IF c.name = "set_pixel"
        THEN ClaimLogical(rot, p[1], p[2]) = <<c.x, c.y>>
        ELSE c.name = "fill_solid" /\ InCallRect(c, ClaimLogical(rot, p[1], p[2]))}

\* C3: after fill_solid(R, color) every pixel of R inside the rotated plane
\* reads back as color, every other bit of the buffer is what it was, and no
\* buffer index was out of range.
C3_FillSolid ==
    [][op'.name = "fill_solid" =>
         /\ ~panicked'
         /\ \A i \in 0 .. BS - 1 : \A b \in 0 .. 7 :
                Bit(buffer'[i], b) =
                    IF <<i % WIDTH, 8 * (i \div WIDTH) + b>> \in Footprint(display_rotation, op')
                    THEN op'.v
                    ELSE Bit(buffer[i], b)]_vars

\* C3 witness: under a swapping rotation a fill switched off a rectangle that
\* starts and ends inside a page on two different pages, leaving a partly
\* cleared byte next to an untouched one.
C3_Witness ==
    /\ op.name = "fill_solid" /\ op.v = 0
    /\ display_rotation = "Rotate270"
    /\ op.x % 8 # 0 /\ (op.x + op.w) % 8 # 0
    /\ op.x \div 8 < (op.x + op.w) \div 8
    /\ op.x + op.w <= HEIGHT
    /\ op.h >= 1 /\ op.y + op.h < WIDTH
    /\ \E i \in 0 .. BS - 1 : buffer[i] \notin {0, 255}
    /\ \E i \in 0 .. WIDTH * PAGES - 1 : buffer[i] = 255

\* the page writes of a wire made of whole draw_page calls: page, first column, bytes
PageWrites(w) ==
    [k \in 1 .. (Len(w) \div 4) |->
        [page |-> w[4 * k - 3].arg,
         col |-> w[4 * k - 2].arg + 16 * w[4 * k - 1].arg - COLUMN_OFFSET,
         data |-> w[4 * k].data]]

TouchedInPlane == touched # {} /\ \A p \in touched : p[1] < WIDTH /\ p[2] < HEIGHT

\* C4: after in-bounds writes, a successful flush has sent a page write for
\* the page of every touched pixel, and that page write carries the buffer byte
\* of the pixel.
C4_FlushCoversTouchedPages ==
    [][(op'.name = "flush" /\ result' = "Ok" /\ TouchedInPlane) =>
         \A p \in touched :
             \E k \in DOMAIN PageWrites(wire') :
                 LET pw == PageWrites(wire')[k]
                 IN  /\ pw.page = p[2] \div 8
                     /\ pw.col <= p[1] /\ p[1] < pw.col + Len(pw.data)
                     /\ pw.data[p[1] - pw.col + 1] = buffer[(p[2] \div 8) * WIDTH + p[1]]]_vars

SetMin(S) == CHOOSE m \in S : \A n \in S : m <= n
SetMax(S) == CHOOSE m \in S : \A n \in S : m >= n

\* C5: every page write of a flush after in-bounds writes starts at the
\* smallest touched column and carries exactly the buffer bytes of the touched
\* column span of its page.
C5_FlushColumnsExact ==
    [][(op'.name = "flush" /\ result' = "Ok" /\ TouchedInPlane) =>
         LET cmin == SetMin({p[1] : p \in touched})
             cmax == SetMax({p[1] : p \in touched})
         IN  \A k \in DOMAIN PageWrites(wire') :
                 LET pw == PageWrites(wire')[k]
                 IN  /\ pw.col = cmin
                     /\ pw.data = [c \in 1 .. (cmax - cmin + 1) |->
                                     buffer[pw.page * WIDTH + cmin + c - 1]]]_vars

AllZero(buf) == \A i \in 0 .. BS - 1 : buf[i] = 0

\* a full-screen transmission: ceil(HEIGHT / 8) page writes, pages 0, 1, ...,
\* each from column 0 with WIDTH bytes
FullScreen(w) ==
    /\ Len(w) = 4 * DivCeil(HEIGHT, 8)
    /\ \A k \in DOMAIN PageWrites(w) :
           /\ PageWrites(w)[k].page = k - 1
           /\ PageWrites(w)[k].col = 0
           /\ Len(PageWrites(w)[k].data) = WIDTH

\* C6 as stated: the constructed state has a zero buffer and the first flush
\* after construction, with nothing in between, transmits the full screen.
C6_FirstFlushSendsAll ==
    [][(op.name = "new" /\ op'.name = "flush" /\ result' = "Ok") =>
         (AllZero(buffer) /\ FullScreen(wire'))]_vars

\* C6 as amended: the constructed state has a zero buffer and the empty dirty
\* rectangle top_left = (WIDTH, HEIGHT), bot_right = (0, 0); the first flush
\* after construction, with nothing in between, sends nothing and returns Ok.
C6_FirstFlushSendsNothing ==
    [][op.name = "new" =>
         /\ AllZero(buffer)
         /\ top_left = <<WIDTH, HEIGHT>> /\ bot_right = <<0, 0>>
         /\ op'.name = "flush" =>
                (wire' = <<>> /\ result' = "Ok" /\ buffer' = buffer
                    /\ top_left' = top_left /\ bot_right' = bot_right)]_vars

\* C6 witness: the state after a flush of the constructed state.
C6_Witness ==
    /\ op.name = "flush" /\ result = "Ok" /\ wire = <<>>
    /\ calls = 0
    /\ top_left = <<WIDTH, HEIGHT>> /\ bot_right = <<0, 0>>

\* the corners of a non-empty set of pixels
MinCorner(S) == <<SetMin({p[1] : p \in S}), SetMin({p[2] : p \in S})>>
MaxCorner(S) == <<SetMax({p[1] : p \in S}), SetMax({p[2] : p \in S})>>

\* C7: a successful flush leaves the dirty rectangle empty, a flush right
\* after it sends nothing and returns Ok, and the first write after a flush
\* makes the dirty rectangle exactly the bounding box of that write.
C7_FlushIdempotent ==
    [][/\ (op'.name = "flush" /\ result' = "Ok") =>
              (top_left'[1] > bot_right'[1] \/ top_left'[2] > bot_right'[2])
       /\ (op.name = "flush" /\ result = "Ok" /\ op'.name = "flush") =>
              (wire' = <<>> /\ result' = "Ok")
       /\ (op.name = "flush" /\ result = "Ok" /\ IsWrite(op')
              /\ Footprint(display_rotation, op') # {}) =>
              /\ top_left' = MinCorner(Footprint(display_rotation, op'))
              /\ bot_right' = MaxCorner(Footprint(display_rotation, op'))]_vars

\* C8: clear zeroes the buffer and makes the dirty rectangle cover the whole
\* plane; a successful flush right after clear transmits the full screen.
C8_ClearThenFlush ==
    [][/\ op'.name = "clear" =>
              /\ AllZero(buffer')
              /\ top_left' = <<0, 0>>
              /\ bot_right'[1] >= WIDTH - 1 /\ bot_right'[2] >= HEIGHT - 1
       /\ (op.name = "clear" /\ op'.name = "flush" /\ result' = "Ok") =>
              FullScreen(wire')]_vars

\* C8 witness: a full screen of zero bytes was flushed after pixels had been
\* written and cleared.
C8_Witness ==
    /\ op.name = "flush" /\ result = "Ok"
    /\ calls > 0
    /\ FullScreen(wire)
    /\ \A k \in DOMAIN PageWrites(wire) : \A c \in 1 .. WIDTH : PageWrites(wire)[k].data[c] = 0
    /\ AllZero(buffer)

\* C9: a call other than flush and clear never shrinks the dirty rectangle,
\* and after a write every pixel of the plane the write touched lies inside it.
C9_DirtyMonotone ==
    [][op'.name \notin {"flush", "clear"} =>
         /\ top_left'[1] <= top_left[1] /\ top_left'[2] <= top_left[2]
         /\ bot_right'[1] >= bot_right[1] /\ bot_right'[2] >= bot_right[2]
         /\ \A p \in Footprint(display_rotation, op') :
                /\ top_left'[1] <= p[1] /\ p[1] <= bot_right'[1]
                /\ top_left'[2] <= p[2] /\ p[2] <= bot_right'[2]]_vars

\* C9 witness: after a second write the dirty rectangle holds the pixels of
\* both writes, the first of which lies outside the second.
C9_Witness ==
    /\ op.name = "fill_solid" /\ calls = 2
    /\ Footprint(display_rotation, op) # {}
    /\ ~(touched \subseteq Footprint(display_rotation, op))
    /\ \A p \in touched :
           /\ top_left[1] <= p[1] /\ p[1] <= bot_right[1]
           /\ top_left[2] <= p[2] /\ p[2] <= bot_right[2]

\* C10: a fill_solid whose rectangle has no pixel inside the plane changes
\* neither the buffer nor the dirty rectangle.
C10_ZeroAreaFillNoOp ==
    [][(op'.name = "fill_solid" /\ Footprint(display_rotation, op') = {}) =>
         (buffer' = buffer /\ top_left' = top_left /\ bot_right' = bot_right)]_vars

\* the page-address command of the variant
PageCommand == IF LARGE_PAGE_ADDRESS THEN "LargePageAddress" ELSE "PageAddress"

\* the sends of one page write as the protocol orders them
Addressed(page_addr, col, buf) ==
    << Cmd(PageCommand, page_addr),
       Cmd("ColumnAddressLow", (col + COLUMN_OFFSET) % 16),
       Cmd("ColumnAddressHigh", ((col + COLUMN_OFFSET) \div 16) % 16),
       Data(buf) >>

\* C11: draw_page(page, col, buf) sends the page-address command, the low
\* nibble and the high nibble of col + COLUMN_OFFSET and then buf once, in this
\* order and stopping at a failed send; in the sends of every call each data
\* send comes right after a page-address, a ColumnAddressLow and a
\* ColumnAddressHigh command, whatever happened to the call before it.
C11_AddressingBeforeData ==
    /\ op.name = "draw_page" =>
           /\ wire = SubSeq(Addressed(op.x, op.y, op.buf), 1, Len(wire))
           /\ result = "Ok" => Len(wire) = 4
    /\ \A i \in 1 .. Len(wire) :
           wire[i].kind = "data" =>
               /\ i >= 4
               /\ wire[i - 3].name = PageCommand
               /\ wire[i - 2].name = "ColumnAddressLow"
               /\ wire[i - 1].name = "ColumnAddressHigh"

\* C11 witness: a draw_page at a column whose address has a non-zero high
\* nibble sent its bytes after the three addressing commands.
C11_Witness ==
    /\ op.name = "draw_page" /\ result = "Ok"
    /\ op.y = 125 /\ Len(op.buf) > 0
    /\ wire[2].arg = 15 /\ wire[3].arg = 7
    /\ wire[4] = Data(op.buf)

\* the (SegmentRemap, ReverseComDir) arguments of a rotation, 1 for true
OrientationPair(rot) ==
    CASE rot = "Rotate0" -> <<1, 1>>
      [] rot = "Rotate90" -> <<0, 1>>
      [] rot = "Rotate180" -> <<0, 0>>
      [] rot = "Rotate270" -> <<1, 0>>

\* C12: a successful set_rotation(r) has sent exactly SegmentRemap(a) and then
\* ReverseComDir(b) with (a, b) the pair of r, the pairs of the four rotations
\* differ, and afterwards the stored rotation is r.
C12_RotationCommands ==
    [][(op'.name = "set_rotation" /\ result' = "Ok") =>
         /\ wire' = <<Cmd("SegmentRemap", OrientationPair(op'.x)[1]),
                      Cmd("ReverseComDir", OrientationPair(op'.x)[2])>>
         /\ display_rotation' = op'.x
         /\ \A r \in Rotations \ {op'.x} :
                <<wire'[1].arg, wire'[2].arg>> # OrientationPair(r)]_vars

\* C12 witness: a successful set_rotation changed the rotation to Rotate270.
C12_Witness ==
    /\ op.name = "set_rotation" /\ result = "Ok"
    /\ op.x = "Rotate270" /\ display_rotation = "Rotate270"
    /\ trip.from = "Rotate90"
    /\ wire = <<Cmd("SegmentRemap", 1), Cmd("ReverseComDir", 0)>>

IsOrientation(c) == c.name \in {"SegmentRemap", "ReverseComDir"}

\* C13: init leaves the stored rotation as it was; a successful init has sent
\* the variant's sequence, ending with DisplayOffset and ComPinConfig and free
\* of orientation commands, and then as its last two commands SegmentRemap and
\* ReverseComDir for the stored rotation; an init that failed on a command of
\* the variant's sequence has sent no orientation command.
C13_InitOrdering ==
    [][op'.name = "init" =>
         LET n == Len(wire')
         IN  /\ display_rotation' = display_rotation
             /\ result' = "Ok" =>
                    /\ n >= 4
                    /\ wire'[n - 1] = Cmd("SegmentRemap", OrientationPair(display_rotation)[1])
                    /\ wire'[n] = Cmd("ReverseComDir", OrientationPair(display_rotation)[2])
                    /\ wire'[n - 3] = Cmd("DisplayOffset", 0)
                    /\ wire'[n - 2] = Cmd("ComPinConfig", 1)
                    /\ \A i \in 1 .. n - 2 : ~IsOrientation(wire'[i])
             /\ (result' = "Err" /\ ~IsOrientation(wire'[n])) =>
                    \A i \in 1 .. n : ~IsOrientation(wire'[i])]_vars

\* C13 witness: a successful init under Rotate90 ended with the two
\* orientation commands of Rotate90 after the variant's commands.
C13_Witness ==
    /\ op.name = "init" /\ result = "Ok"
    /\ display_rotation = "Rotate90"
    /\ Len(wire) = InitCommonLen + 4
    /\ wire[Len(wire) - 1] = Cmd("SegmentRemap", 0)
    /\ wire[Len(wire)] = Cmd("ReverseComDir", 1)

\* the bits of a zero buffer that set_pixel(0, 0, on) switches on under a rotation
OriginTarget(rot) ==
    {t \in (0 .. BS - 1) \X (0 .. 7) : Bit(set_pixel(new, rot, 0, 0, 1).buffer[t[1]], t[2]) = 1}

\* C14: get_dimensions is (WIDTH, HEIGHT) under Rotate0 and Rotate180 and
\* (HEIGHT, WIDTH) under Rotate90 and Rotate270; set_rotation leaves the buffer
\* alone; once all four rotations have been requested, a request for the
\* rotation at construction brings back the dimensions of construction and the
\* byte and bit that set_pixel(0, 0, on) addresses.
C14_RotationRoundTrip ==
    [][/\ get_dimensions(display_rotation') =
              IF display_rotation' \in {"Rotate0", "Rotate180"}
              THEN <<WIDTH, HEIGHT>> ELSE <<HEIGHT, WIDTH>>
       /\ op'.name = "set_rotation" => buffer' = buffer
       /\ (op'.name = "set_rotation" /\ trip'.back) =>
              /\ get_dimensions(display_rotation') = get_dimensions(trip.from)
              /\ OriginTarget(display_rotation') = OriginTarget(trip.from)
              /\ OriginTarget(display_rotation') = {<<0, 0>>}]_vars

\* C14 witness: with a pixel in the buffer, a round trip through the four
\* rotations ended at Rotate90, the rotation of construction.
C14_Witness ==
    /\ op.name = "set_rotation" /\ trip.back
    /\ trip.from = "Rotate90" /\ display_rotation = "Rotate90"
    /\ get_dimensions(display_rotation) = <<HEIGHT, WIDTH>>
    /\ ~AllZero(buffer)

HwNames ==
    {"draw_page", "draw", "flush", "set_rotation", "init", "display_on", "set_contrast",
     "draw_tile", "tiled_clear"}

\* the sends the call c makes from the current state when the transport never fails
Planned(c) ==
    CASE c.name = "draw_page" -> draw_page(c.x, c.y, c.buf)
      [] c.name = "draw" -> draw(draw_area_start, draw_area_end, c.buf)
      [] c.name = "flush" -> flush_sends(G)
      [] c.name = "set_rotation" -> set_rotation(c.x)
      [] c.name = "init" -> init_column_mode(display_rotation)
      [] c.name = "display_on" -> display_on(c.x = 1)
      [] c.name = "set_contrast" -> set_contrast(c.x)
      [] c.name = "draw_tile" -> draw_tile(tile)
      [] c.name = "tiled_clear" -> tiled_clear(c.x)

Masked(b, mask, pop) ==
    IF pop = "Set" THEN Or8(b, mask)
    ELSE IF pop = "Clear" THEN And8(b, 255 - mask)
    ELSE Xor8(b, mask)

\* C16: apply_mask(mask, start, end, op) on a page of width W never indexes
\* past the page; with start <= end <= W it replaces the bytes of columns
\* start .. end - 1 by the masked bytes and leaves the other columns as they
\* were; with end < start it changes nothing.
C16_ApplyMaskRange ==
    [][op'.name = "Page_apply_mask" =>
         /\ ~panicked'
         /\ (op'.x <= op'.y /\ op'.y <= W) =>
                \A c \in 0 .. W - 1 :
                    page'[c + 1] = IF op'.x <= c /\ c < op'.y
                                   THEN Masked(page[c + 1], op'.w, op'.v)
                                   ELSE page[c + 1]
         /\ op'.y < op'.x => page' = page]_vars

\* the tile t after op pop on bit (y % 8) of column col of page pn, unchanged
\* when the column or the page is not one of the tile
PixelApplied(t, col, pn, y, pop) ==
    [k \in 1 .. P |-> [c \in 1 .. W |->
        IF k - 1 = pn /\ c - 1 = col
        THEN Masked(t.pages[k][c], 2 ^ (y % 8), pop)
        ELSE t.pages[k][c]]]

TilePoint(t, k, c, b) == <<t.col_offset + c - 1, 8 * (t.page_offset + k - 1) + b>>

\* C18: Tile::fill_solid(R, color) accesses no page or column outside the
\* tile, gives the colour to every bit of the tile whose plane point lies in
\* R, and leaves every other bit of the tile as it was.
C18_TileFillSolid ==
    [][op'.name = "Tile_fill_solid" =>
         /\ ~panicked'
         /\ \A k \in 1 .. P, c \in 1 .. W, b \in 0 .. 7 :
                Bit(tile'.pages[k][c], b) =
                    IF InCallRect(op', TilePoint(tile, k, c, b))
                    THEN op'.v
                    ELSE Bit(tile.pages[k][c], b)]_vars

\* C19: Page::fill_solid(R, color) gives the colour to every bit of the page
\* whose point (column, row) lies in R and leaves every other bit as it was,
\* without failing; this includes the rectangles of all 8 rows and those that
\* end left of column W.
C19_PageFillSolid ==
    [][op'.name = "Page_fill_solid" =>
         /\ ~panicked'
         /\ \A c \in 1 .. W, b \in 0 .. 7 :
                Bit(page'[c], b) =
                    IF InCallRect(op', <<c - 1, b>>) THEN op'.v ELSE Bit(page[c], b)]_vars

\* C20: from the same buffer, the banded steps of fill_solid alone (top
\* partial mask, whole-byte fill, bottom partial mask) and the writing of each
\* pixel of the rectangle through set_pixel give the same bytes, which are
\* also the bytes fill_solid leaves.
C20_BandedEqualsPixels ==
    [][op'.name = "fill_solid" =>
         /\ ~panicked'
         /\ buffer' = banded(G, display_rotation, Rect(op'.x, op'.y, op'.w, op'.h),
                             op'.v = 1).g.buffer
         /\ buffer' = fill_contiguous(G, display_rotation, Rect(op'.x, op'.y, op'.w, op'.h),
                                      op'.v = 1).buffer]_vars

\* C20 witness: under Rotate0 a fill switched off a rectangle that starts
\* inside the first page and covers the whole second page, in a buffer that
\* was all ones.
C20_Witness ==
    /\ op.name = "fill_solid" /\ op.v = 0
    /\ display_rotation = "Rotate0"
    /\ op.y = 3 /\ op.h = HEIGHT - 3 /\ op.x = 0 /\ op.w = 1
    /\ buffer[0] = 7 /\ buffer[WIDTH] = 0
    /\ buffer[1] = 255

\* C21: set_draw_area records the window it is given; with a window whose end
\* column lies right of its start column, a draw(buf) on which no send fails
\* makes exactly ceil(len(buf) / (ex - sx)) page writes, the i-th (from 0) to
\* page sy / 8 + i and column sx with the bytes buf[i * (ex - sx) ..
\* min((i + 1) * (ex - sx), len(buf))); an empty buf makes no send.
C21_DrawChunking ==
    [][/\ op'.name = "set_draw_area" =>
              (draw_area_start' = op'.x /\ draw_area_end' = op'.y)
       /\ (op'.name = "draw" /\ result' = "Ok" /\ draw_area_end[1] > draw_area_start[1]) =>
              LET width == draw_area_end[1] - draw_area_start[1]
                  len == Len(op'.buf)
                  n == DivCeil(len, width)
              IN  /\ Len(wire') = 4 * n
                  /\ \A i \in 0 .. n - 1 :
                         SubSeq(wire', 4 * i + 1, 4 * i + 4) =
                             Addressed((draw_area_start[2] \div 8) + i, draw_area_start[1],
                                       [j \in 1 .. (Min((i + 1) * width, len) - i * width) |->
                                           op'.buf[i * width + j]])
                  /\ len = 0 => wire' = <<>>]_vars

\* C21 witness: a draw of three bytes into a window two columns wide that
\* starts in page 0 made two page writes, the second to page 1 with the last
\* byte alone.
C21_Witness ==
    /\ op.name = "draw" /\ result = "Ok" /\ Len(op.buf) = 3
    /\ draw_area_start = <<0, 0>> /\ draw_area_end[1] = 2
    /\ Len(wire) = 8
    /\ wire[1].arg = 0 /\ wire[4].data = SubSeq(op.buf, 1, 2)
    /\ wire[5].arg = 1 /\ wire[8].data = <<op.buf[3]>>

\* the call of the worked example: the rectangle (0, 3, 8, 10) filled with on
ScenarioCall(c) == c.x = 0 /\ c.y = 3 /\ c.w = 8 /\ c.h = 10 /\ c.v = 1

\* the worked example on the driver, whose plane is all zero and not swapped
GraphicsScenario ==
    /\ op'.name = "fill_solid" /\ ScenarioCall(op')
    /\ display_rotation \in {"Rotate0", "Rotate180"}
    /\ AllZero(buffer)

\* the worked example on a tile that is all zero and anchored at the origin
TileScenario ==
    /\ op'.name = "Tile_fill_solid" /\ ScenarioCall(op')
    /\ tile.col_offset = 0 /\ tile.page_offset = 0
    /\ \A k \in 1 .. P, c \in 1 .. W : tile.pages[k][c] = 0

\* C22 as stated: the fill of (0, 3, 8, 10) with on, on an all-zero plane,
\* leaves 0b11111000 in the columns of page 0, 0xFF in the columns of page 1
\* and 0b00000001 in the columns of page 2, on the driver and on a tile.
C22_ScenarioAsStated ==
    [][/\ GraphicsScenario =>
              \A c \in 0 .. Min(8, WIDTH) - 1 :
                  /\ buffer'[c] = 248
                  /\ buffer'[WIDTH + c] = 255
                  /\ BS >= 3 * WIDTH => buffer'[2 * WIDTH + c] = 1
       /\ TileScenario =>
              \A c \in 1 .. Min(8, W) :
                  /\ tile'.pages[1][c] = 248
                  /\ tile'.pages[2][c] = 255
                  /\ P >= 3 => tile'.pages[3][c] = 1]_vars

\* C22 as amended: the fill of (0, 3, 8, 10) with on, on an all-zero plane,
\* covers rows 3 .. 12: it leaves 0b11111000 in the columns of page 0,
\* 0b00011111 in the columns of page 1 and every later page zero, without
\* failing, on the driver and on a tile.
C22_ScenarioRows3To12 ==
    [][/\ GraphicsScenario =>
              /\ ~panicked'
              /\ \A c \in 0 .. Min(8, WIDTH) - 1 :
                     /\ buffer'[c] = 248
                     /\ buffer'[WIDTH + c] = 31
              /\ \A i \in 2 * WIDTH .. BS - 1 : buffer'[i] = 0
       /\ TileScenario =>
              /\ ~panicked'
              /\ \A c \in 1 .. Min(8, W) :
                     /\ tile'.pages[1][c] = 248
                     /\ tile'.pages[2][c] = 31
              /\ \A k \in 3 .. P, c \in 1 .. W : tile'.pages[k][c] = 0]_vars

\* C22 witness: the driver after the fill of (0, 3, 8, 10) with on under
\* Rotate0, page 0 holding 0b11111000 and page 1 holding 0b00011111.
C22_Witness ==
    /\ op.name = "fill_solid" /\ ScenarioCall(op)
    /\ display_rotation = "Rotate0" /\ calls = 1
    /\ buffer[0] = 248 /\ buffer[WIDTH] = 31 /\ buffer[2 * WIDTH] = 0

\* the rows of a clipped rectangle cross exactly one page boundary and cover
\* no page from its first row to its last
OneBoundaryNoWholePage(c) ==
    /\ c.h > 0
    /\ (c.y \div 8) + 1 = (c.y + c.h - 1) \div 8
    /\ (c.y % 8) # 0 /\ ((c.y + c.h) % 8) # 0

\* the rows of a clipped rectangle cover a page from its first row to its last
HasWholePage(c) == \E k \in 0 .. PAGES - 1 : c.y <= 8 * k /\ 8 * k + 8 <= c.y + c.h

\* C23: fill_solid hands the rectangle to the per-pixel fill_contiguous only
\* when its clipped rows cross exactly one page boundary without covering a
\* whole page; a rectangle that covers a whole aligned page is filled without
\* fill_contiguous.
C23_FallbackOnlyAtEdge ==
    [][op'.name = "fill_solid" =>
         LET area == Rect(op'.x, op'.y, op'.w, op'.h)
             c == Clipped(display_rotation, area)
             s == banded(G, display_rotation, area, op'.v = 1)
             fallback == fill_path(s.y, s.height) = "contiguous"
         IN  /\ fallback => OneBoundaryNoWholePage(c)
             /\ HasWholePage(c) => ~fallback]_vars

\* every pixel written since the last flush or clear lies inside the plane
WritesInPlane == \A p \in touched : p[1] < WIDTH /\ p[2] < HEIGHT

\* C24: as long as the writes since the last flush or clear stayed inside the
\* plane, a non-empty dirty rectangle has bot_right.x <= WIDTH - 1 and
\* top_left.x <= bot_right.x, and no flush has aborted on its column slice.
C24_DirtyInsidePlane ==
    WritesInPlane =>
        /\ ~IsClean(G) => (bot_right[1] <= WIDTH - 1 /\ top_left[1] <= bot_right[1])
        /\ ~(op.name = "flush" /\ result = "Panic")

\* the page writes a flush owes for a dirty rectangle: one per page from the
\* page of top_left.y up to ceil(bot_right.y / 8), each from column top_left.x
\* with the buffer bytes of the columns top_left.x .. bot_right.x
Owed(buf, tl, br) ==
    Concat([k \in 1 .. (Min(DivCeil(br[2], 8), NumChunks) - (tl[2] \div 8)) |->
               Addressed((tl[2] \div 8) + k - 1, tl[1],
                         [c \in 1 .. (br[1] - tl[1] + 1) |->
                             buf[((tl[2] \div 8) + k - 1) * WIDTH + tl[1] + c - 1]])])

PixelTarget(rot, x, y) ==
    LET px == IF rot \in {"Rotate90", "Rotate270"} THEN y ELSE x
        py == IF rot \in {"Rotate90", "Rotate270"} THEN x ELSE y
    IN  <<(py \div 8) * WIDTH + px, py % 8>>

\* C26: a set_rotation(r) that fails on its first or its second command
\* returns the error after at most one command reached the device, and yet r
\* is the stored rotation and get_dimensions answers for r; the buffer is as
\* it was; a set_pixel made right after the failed call addresses the byte and
\* the bit that the pixel has under r, and a fill_solid made right after it
\* fills the bits that the pixels of its rectangle have under r.
C26_RotationStoredBeforeSend ==
    [][/\ (op'.name = "set_rotation" /\ op'.v \in {1, 2}) =>
              /\ result' = "Err"
              /\ wire' = SubSeq(<<Cmd("SegmentRemap", OrientationPair(op'.x)[1]),
                                  Cmd("ReverseComDir", OrientationPair(op'.x)[2])>>, 1, op'.v)
              /\ display_rotation' = op'.x
              /\ get_dimensions(display_rotation') =
                     IF op'.x \in {"Rotate0", "Rotate180"}
                     THEN <<WIDTH, HEIGHT>> ELSE <<HEIGHT, WIDTH>>
              /\ buffer' = buffer
       /\ (op.name = "set_rotation" /\ result = "Err" /\ op'.name = "set_pixel"
              /\ PixelTarget(op.x, op'.x, op'.y)[1] < BS) =>
              /\ Bit(buffer'[PixelTarget(op.x, op'.x, op'.y)[1]],
                     PixelTarget(op.x, op'.x, op'.y)[2]) = op'.v
              /\ \A i \in 0 .. BS - 1 :
                     i # PixelTarget(op.x, op'.x, op'.y)[1] => buffer'[i] = buffer[i]
       /\ (op.name = "set_rotation" /\ result = "Err" /\ op'.name = "fill_solid") =>
              LET dims == IF op.x \in {"Rotate0", "Rotate180"}
                          THEN <<WIDTH, HEIGHT>> ELSE <<HEIGHT, WIDTH>>
                  filled == {PixelTarget(op.x, l[1], l[2]) :
                                l \in {q \in RectPixels(Rect(op'.x, op'.y, op'.w, op'.h)) :
                                           q[1] < dims[1] /\ q[2] < dims[2]}}
              IN  /\ filled # {}
                  /\ \A t \in (0 .. BS - 1) \X (0 .. 7) :
                         Bit(buffer'[t[1]], t[2]) =
                             IF t \in filled THEN op'.v ELSE Bit(buffer[t[1]], t[2])]_vars

\* C26 witness: a set_rotation(Rotate90) on a driver constructed with Rotate0
\* failed on its first command, and Rotate90 is the stored rotation.
C26_Witness ==
    /\ op.name = "set_rotation" /\ result = "Err" /\ op.v = 1
    /\ op.x = "Rotate90" /\ trip.from = "Rotate0" /\ trip.seen = {"Rotate90"}
    /\ display_rotation = "Rotate90"
    /\ get_dimensions(display_rotation) = <<HEIGHT, WIDTH>>
    /\ Len(wire) = 1

====
